---- MODULE Spec2Model ----
(***************************************************************************)
(* pbratu.c: residual, Jacobian and initial guess of the 2D p-Bratu       *)
(* problem on a structured grid (PETSc DMDA call-backs).                   *)
(*                                                                         *)
(* PetscReal / PetscScalar values are modelled as exact rationals <<n,d>>  *)
(* in lowest terms with d > 0; <<0,0>> stands for a slot never written.    *)
(* Arrays keep the source's shape: a[j][i].                                *)
(***************************************************************************)
EXTENDS Integers, Sequences, FiniteSets, TLC

VARIABLES
  mx, my,      \* info->mx, info->my: global grid size
  user,        \* AppCtx: lambda, p, epsilon, jtype
  x,           \* global solution field x[j][i]
  info,        \* worker -> owned rectangle (xs, ys, xm, ym)
  xl,          \* worker -> ghosted local copy of x handed to the call-back
  pc,          \* worker -> position in the running call-back
  cur,         \* worker -> loop indices (i, j) of the running call-back
  f,           \* global residual field f[j][i]
  wr,          \* residual point <<i,j>> -> sequence of workers that wrote it
  B,           \* the Jacobian operator (pattern, entries, lock)
  req,         \* the row and column/value pairs last handed to MatSetValuesStencil
  log,         \* events of the running FormJacobianLocal call
  ierr,        \* error code of the last FormJacobianLocal call, with the jtype it names
  alloc_star,  \* main's -alloc_star option
  later        \* TRUE when the running or last FormJacobianLocal call is not the first

vars == <<mx, my, user, x, info, xl, pc, cur, f, wr, B, req, log, ierr, alloc_star, later>>

----------------------------------------------------------------------------
(* Bounds of the model *)

\* largest grid extent per direction (grids are 2..MaxM by 2..MaxM)
MaxM == 4

----------------------------------------------------------------------------
(* Exact rational arithmetic standing for PetscReal *)

Abs(n) == IF n < 0 THEN -n ELSE n

RECURSIVE GCD(_, _)
GCD(a, b) == IF b = 0 THEN a ELSE GCD(b, a % b)

RNorm(n, d) == LET g == GCD(Abs(n), d) IN <<n \div g, d \div g>>

R(n) == <<n, 1>>
Zero == <<0, 1>>
One == <<1, 1>>
Two == <<2, 1>>
Four == <<4, 1>>
Half == <<1, 2>>
Quarter == <<1, 4>>
Unset == <<0, 0>>

RAdd(a, b) ==
  IF a[1] = 0 THEN b
  ELSE IF b[1] = 0 THEN a
  ELSE IF a[2] = b[2] THEN RNorm(a[1] + b[1], a[2])
  ELSE LET g == GCD(a[2], b[2])
       IN  RNorm(a[1] * (b[2] \div g) + b[1] * (a[2] \div g), (a[2] \div g) * b[2])

RNeg(a) == <<-a[1], a[2]>>

RSub(a, b) == RAdd(a, RNeg(b))

RMul(a, b) ==
  IF a[1] = 0 \/ b[1] = 0 THEN Zero
  ELSE IF a[2] = 1 /\ b[2] = 1 THEN <<a[1] * b[1], 1>>
  ELSE LET g1 == GCD(Abs(a[1]), b[2])
           g2 == GCD(Abs(b[1]), a[2])
       IN  <<(a[1] \div g1) * (b[1] \div g2), (a[2] \div g2) * (b[2] \div g1)>>

RInv(a) == IF a[1] < 0 THEN <<-a[2], -a[1]>> ELSE <<a[2], a[1]>>

RDiv(a, b) == RMul(a, RInv(b))

RPos(a) == a[1] > 0

----------------------------------------------------------------------------
(* Grid, ownership and solution fields *)

GridSizes == 2..MaxM

\* non-empty owned rectangles of an mxv x myv grid (DMDAGetCorners / DMDALocalInfo)
Rects(mxv, myv) ==
  {r \in [xs : 0..(mxv - 1), ys : 0..(myv - 1), xm : 1..mxv, ym : 1..myv] :
     r.xs + r.xm <= mxv /\ r.ys + r.ym <= myv}

Owned(r) == {<<i, j>> : i \in r.xs..(r.xs + r.xm - 1), j \in r.ys..(r.ys + r.ym - 1)}

Grid(mxv, myv) == {<<i, j>> : i \in 0..(mxv - 1), j \in 0..(myv - 1)}

\* i == 0 || j == 0 || i == mx-1 || j == my-1
IsBoundary(mxv, myv, i, j) == i = 0 \/ j = 0 \/ i = mxv - 1 \/ j = myv - 1

Interior(mxv, myv) == {pt \in Grid(mxv, myv) : ~IsBoundary(mxv, myv, pt[1], pt[2])}

\* The ghosted local array of a worker: the owned rectangle widened by the
\* stencil width 1 (box stencil), cut at the non-periodic domain boundary.
Ghosted(mxv, myv, r, xg) ==
  LET gxs == IF r.xs > 0 THEN r.xs - 1 ELSE 0
      gys == IF r.ys > 0 THEN r.ys - 1 ELSE 0
      gxe == IF r.xs + r.xm < mxv THEN r.xs + r.xm + 1 ELSE mxv
      gye == IF r.ys + r.ym < myv THEN r.ys + r.ym + 1 ELSE myv
  IN  [j \in gys..(gye - 1) |-> [i \in gxs..(gxe - 1) |-> xg[j][i]]]

\* integer-valued test fields (a*i + b*j + c*i*j) % 3; all but the first are
\* non-zero on the boundary
FieldCoefs == {<<0, 0, 0>>, <<1, 0, 0>>, <<0, 1, 0>>, <<1, 1, 0>>, <<0, 0, 1>>, <<1, 2, 1>>}

FieldOf(mxv, myv, k) ==
  [j \in 0..(myv - 1) |-> [i \in 0..(mxv - 1) |-> R((k[1] * i + k[2] * j + k[3] * i * j) % 3)]]

Fields(mxv, myv) == {FieldOf(mxv, myv, k) : k \in FieldCoefs}

ZeroField(mxv, myv) == [j \in 0..(myv - 1) |-> [i \in 0..(mxv - 1) |-> Zero]]

UnsetField(mxv, myv) == [j \in 0..(myv - 1) |-> [i \in 0..(mxv - 1) |-> Unset]]

----------------------------------------------------------------------------
(* Problem parameters *)

Eps1e5 == <<1, 100000>>
EpsTenth == <<1, 10>>

\* user.lambda = 6.0; user.p = 2.0; user.epsilon = 1e-5 and two other settings
\* of the -lambda, -p, -epsilon options
Problems ==
  { [lambda |-> R(6), p |-> Two,  epsilon |-> Eps1e5],
    [lambda |-> R(1), p |-> Two,  epsilon |-> EpsTenth],
    [lambda |-> R(6), p |-> Four, epsilon |-> EpsTenth] }

AppCtx(jtypes) ==
  {[lambda |-> q.lambda, p |-> q.p, epsilon |-> q.epsilon, jtype |-> t] :
     q \in Problems, t \in jtypes}

----------------------------------------------------------------------------
(* Diffusivity model *)

PetscSqr(a) == RMul(a, a)

\* exp() at the integer field values, to three decimals
PetscExpScalar(u) ==
  CASE u = R(0) -> One
    [] u = R(1) -> <<1359, 500>>
    [] u = R(2) -> <<7389, 1000>>

\* pow(b, e) for integral e; pow(b, 0) is 1 for every b
RECURSIVE pow(_, _)
pow(b, e) ==
  IF e = Zero THEN One
  ELSE IF e[1] < 0 THEN RInv(pow(b, RNeg(e)))
  ELSE RMul(b, pow(b, RSub(e, One)))

\* faulty variant: the diffusivity of p = 4 with unit regularisation, whatever p is
eta_p4(ctx, ux, uy) == RAdd(One, RMul(Half, RAdd(RMul(ux, ux), RMul(uy, uy))))

eta(ctx, ux, uy) ==
  pow(RAdd(PetscSqr(ctx.epsilon), RMul(Half, RAdd(RMul(ux, ux), RMul(uy, uy)))),
      RMul(Half, RSub(ctx.p, Two)))

deta(ctx, ux, uy) ==
  IF ctx.p = Two
  THEN Zero
  ELSE RMul(RMul(pow(RAdd(PetscSqr(ctx.epsilon),
                          RMul(Half, RAdd(RMul(ux, ux), RMul(uy, uy)))),
                     RMul(Half, RSub(ctx.p, Four))),
                 Half),
            RSub(ctx.p, Two))

\* the four edge-centred gradient pairs of interior point (i,j)
Edges(xa, i, j, dhx, dhy) ==
  [ ux_E |-> RMul(dhx, RSub(xa[j][i+1], xa[j][i])),
    uy_E |-> RMul(RMul(Quarter, dhy),
                  RSub(RSub(RAdd(xa[j+1][i], xa[j+1][i+1]), xa[j-1][i]), xa[j-1][i+1])),
    ux_W |-> RMul(dhx, RSub(xa[j][i], xa[j][i-1])),
    uy_W |-> RMul(RMul(Quarter, dhy),
                  RSub(RSub(RAdd(xa[j+1][i-1], xa[j+1][i]), xa[j-1][i-1]), xa[j-1][i])),
    ux_N |-> RMul(RMul(Quarter, dhx),
                  RSub(RSub(RAdd(xa[j][i+1], xa[j+1][i+1]), xa[j][i-1]), xa[j+1][i-1])),
    uy_N |-> RMul(dhy, RSub(xa[j+1][i], xa[j][i])),
    ux_S |-> RMul(RMul(Quarter, dhx),
                  RSub(RSub(RAdd(xa[j-1][i+1], xa[j][i+1]), xa[j-1][i-1]), xa[j][i-1])),
    uy_S |-> RMul(dhy, RSub(xa[j][i], xa[j-1][i])) ]

----------------------------------------------------------------------------
(* Residual evaluator *)

\* faulty variant: the reaction scale misses the factor hy
sc_nohy(hx, hy, ctx) == RMul(hx, ctx.lambda)

\* sc = hx*hy*user->lambda
sc(hx, hy, ctx) == RMul(RMul(hx, hy), ctx.lambda)

\* faulty variant: the boundary residual is set to zero instead of the field value
BoundaryResidual_zero(xa, i, j) == Zero

\* f[j][i] = x[j][i]: homogeneous Dirichlet boundary condition
BoundaryResidual(xa, i, j) == xa[j][i]

\* faulty variant: the two edge fluxes are added instead of differenced
DivFlux_sum(h, e1, g1, e2, g2) == RMul(RNeg(h), RAdd(RMul(e1, g1), RMul(e2, g2)))

\* uxx = -hy * (e_E*ux_E - e_W*ux_W), uyy = -hx * (e_N*uy_N - e_S*uy_S)
DivFlux(h, e1, g1, e2, g2) == RMul(RNeg(h), RSub(RMul(e1, g1), RMul(e2, g2)))

\* the value FormFunctionLocal stores in f[j][i]
FormFunctionPoint(mxv, myv, ctx, xa, i, j) ==
  LET hx  == RDiv(One, R(mxv - 1))
      hy  == RDiv(One, R(myv - 1))
      dhx == RDiv(One, hx)
      dhy == RDiv(One, hy)
  IN  IF IsBoundary(mxv, myv, i, j)
      THEN BoundaryResidual(xa, i, j)
      ELSE LET u   == xa[j][i]
               g   == Edges(xa, i, j, dhx, dhy)
               e_E == eta(ctx, g.ux_E, g.uy_E)
               e_W == eta(ctx, g.ux_W, g.uy_W)
               e_N == eta(ctx, g.ux_N, g.uy_N)
               e_S == eta(ctx, g.ux_S, g.uy_S)
               uxx == DivFlux(hy, e_E, g.ux_E, e_W, g.ux_W)
               uyy == DivFlux(hx, e_N, g.uy_N, e_S, g.uy_S)
           IN  RSub(RAdd(uxx, uyy), RMul(sc(hx, hy, ctx), PetscExpScalar(u)))

\* faulty variant: the outer loop stops one row of the rectangle early
LoopNext_short(r, i, j) ==
  IF i + 1 < r.xs + r.xm THEN <<i + 1, j>>
  ELSE IF j + 1 < r.ys + r.ym - 1 THEN <<r.xs, j + 1>>
  ELSE <<>>

\* the loops "for (j=ys; j<ys+ym; j++) for (i=xs; i<xs+xm; i++)": the indices
\* after (i,j), or <<>> when the loops are over
LoopNext(r, i, j) ==
  IF i + 1 < r.xs + r.xm THEN <<i + 1, j>>
  ELSE IF j + 1 < r.ys + r.ym THEN <<r.xs, j + 1>>
  ELSE <<>>

\* one iteration of the loops of FormFunctionLocal, run by worker w
FormFunctionLocal(w) ==
  /\ pc[w] = "F_loop"
  /\ LET i  == cur[w][1]
         j  == cur[w][2]
         nx == LoopNext(info[w], i, j)
     IN  /\ f' = [f EXCEPT ![j][i] = FormFunctionPoint(mx, my, user, xl[w], i, j)]
         /\ wr' = [wr EXCEPT ![<<i, j>>] = Append(@, w)]
         /\ IF nx = <<>>
            THEN pc' = [pc EXCEPT ![w] = "F_done"] /\ cur' = cur
            ELSE cur' = [cur EXCEPT ![w] = nx] /\ pc' = pc
  /\ UNCHANGED <<mx, my, user, x, info, xl, B, req, log, ierr, alloc_star, later>>

NoRequest == [row |-> <<>>, pairs |-> {}]

NoError == [code |-> "none", jtype |-> 0]

NoOperator == [pattern |-> "none", val |-> <<>>, locked |-> FALSE, assembled |-> FALSE]

\* one worker owning an arbitrary rectangle is handed a field and evaluates the residual
InitF ==
  /\ mx \in GridSizes /\ my \in GridSizes
  /\ user \in AppCtx({1, 4})
  /\ x \in Fields(mx, my)
  /\ info \in [{1} -> Rects(mx, my)]
  /\ xl = [w \in {1} |-> Ghosted(mx, my, info[w], x)]
  /\ pc = [w \in {1} |-> "F_loop"]
  /\ cur = [w \in {1} |-> <<info[w].xs, info[w].ys>>]
  /\ f = UnsetField(mx, my)
  /\ wr = [pt \in Grid(mx, my) |-> <<>>]
  /\ B = NoOperator /\ req = NoRequest /\ log = <<>> /\ ierr = NoError
  /\ alloc_star = FALSE /\ later = FALSE

NextF == \E w \in DOMAIN info : FormFunctionLocal(w)

SpecF == InitF /\ [][NextF]_vars

----------------------------------------------------------------------------
(* Sparse operator: the part of the matrix interface the assembler uses *)

InGrid(mxv, myv, c) == c[1] \in 0..(mxv - 1) /\ c[2] \in 0..(myv - 1)

\* column c lies in the 5-point star around row
StarPattern(mxv, myv, row, c) ==
  /\ InGrid(mxv, myv, c)
  /\ \/ c = row
     \/ (c[2] = row[2] /\ (c[1] = row[1] - 1 \/ c[1] = row[1] + 1))
     \/ (c[1] = row[1] /\ (c[2] = row[2] - 1 \/ c[2] = row[2] + 1))

\* column c lies in the 9-point box around row
BoxPattern(mxv, myv, row, c) ==
  /\ InGrid(mxv, myv, c)
  /\ c[1] \in (row[1] - 1)..(row[1] + 1)
  /\ c[2] \in (row[2] - 1)..(row[2] + 1)

Pattern(stencil, mxv, myv, row, c) ==
  IF stencil = "star" THEN StarPattern(mxv, myv, row, c) ELSE BoxPattern(mxv, myv, row, c)

\* DMCreateMatrix on a DMDA: the rows are preallocated with the DM's stencil
\* pattern, filled with zeros, assembled, and closed to new nonzero locations.
\* val[row][col] holds the entries inserted since; the preallocated zeros are
\* implicit in the pattern.
DMCreateMatrix(stencil) ==
  [pattern |-> stencil, val |-> <<>>, locked |-> TRUE, assembled |-> TRUE]

Inserted(Bv, row) == IF row \in DOMAIN Bv.val THEN DOMAIN Bv.val[row] ELSE {}

NonzeroLocation(Bv, mxv, myv, row, c) ==
  Pattern(Bv.pattern, mxv, myv, row, c) \/ c \in Inserted(Bv, row)

\* MatSetValuesStencil(B,1,&row,n,col,v,INSERT_VALUES): the operator becomes
\* unassembled and the entries are inserted in order; a new nonzero location
\* in a closed operator is an error that leaves the entries inserted before it
\* in place.
MatSetValuesStencil(Bv, mxv, myv, row, col, v) ==
  LET bad == {k \in 1..Len(col) : Bv.locked /\ ~NonzeroLocation(Bv, mxv, myv, row, col[k])}
      n   == IF bad = {} THEN Len(col)
             ELSE (CHOOSE k \in bad : \A m \in bad : k <= m) - 1
      old == IF row \in DOMAIN Bv.val THEN Bv.val[row] ELSE <<>>
      new == [c \in DOMAIN old \cup {col[k] : k \in 1..n} |->
                IF \E k \in 1..n : col[k] = c
                THEN v[CHOOSE k \in 1..n : col[k] = c /\ \A m \in (k + 1)..n : col[m] # c]
                ELSE old[c]]
  IN  [B  |-> [Bv EXCEPT !.val = IF n = 0 THEN Bv.val ELSE (row :> new) @@ Bv.val,
                         !.assembled = FALSE],
       ok |-> bad = {}]

----------------------------------------------------------------------------
(* Jacobian assembler *)

\* faulty variant: the boundary diagonal is given the weight 4 of an unscaled
\* Laplacian diagonal
BoundaryRow_four(row) == [col |-> <<row>>, v |-> <<Four>>, sup |-> TRUE]

\* v[0] = 1.0; MatSetValuesStencil(B,1,&row,1,&row,v,INSERT_VALUES)
BoundaryRow(row) == [col |-> <<row>>, v |-> <<One>>, sup |-> TRUE]

\* col[0..4] of cases 1, 2 and 3, as <<i, j>>
Col5(i, j) == << <<i, j-1>>, <<i-1, j>>, <<i, j>>, <<i+1, j>>, <<i, j+1>> >>

\* faulty variant: col[6] repeats the indices of col[0]
Col9_dup(i, j) ==
  << <<i-1, j-1>>, <<i, j-1>>, <<i+1, j-1>>,
     <<i-1, j>>,   <<i, j>>,   <<i+1, j>>,
     <<i-1, j-1>>, <<i, j+1>>, <<i+1, j+1>> >>

\* col[0..8] of case 4
Col9(i, j) ==
  << <<i-1, j-1>>, <<i, j-1>>, <<i+1, j-1>>,
     <<i-1, j>>,   <<i, j>>,   <<i+1, j>>,
     <<i-1, j+1>>, <<i, j+1>>, <<i+1, j+1>> >>

\* e_*, de_*: eta and deta at the four edges of the point
EdgeCoefs(ctx, g) ==
  [ e_E  |-> eta(ctx, g.ux_E, g.uy_E),
    e_W  |-> eta(ctx, g.ux_W, g.uy_W),
    e_N  |-> eta(ctx, g.ux_N, g.uy_N),
    e_S  |-> eta(ctx, g.ux_S, g.uy_S),
    de_E |-> deta(ctx, g.ux_E, g.uy_E),
    de_W |-> deta(ctx, g.ux_W, g.uy_W),
    de_N |-> deta(ctx, g.ux_N, g.uy_N),
    de_S |-> deta(ctx, g.ux_S, g.uy_S) ]

\* skew_*, cross_*, newt_*: the terms of the Newton linearisation
NewtonCoefs(g, c) ==
  LET skew_E == RMul(RMul(c.de_E, g.ux_E), g.uy_E)
      skew_W == RMul(RMul(c.de_W, g.ux_W), g.uy_W)
      skew_N == RMul(RMul(c.de_N, g.ux_N), g.uy_N)
      skew_S == RMul(RMul(c.de_S, g.ux_S), g.uy_S)
  IN  [ skew_E |-> skew_E, skew_W |-> skew_W, skew_N |-> skew_N, skew_S |-> skew_S,
        cross_EW |-> RMul(Quarter, RSub(skew_E, skew_W)),
        cross_NS |-> RMul(Quarter, RSub(skew_N, skew_S)),
        newt_E |-> RAdd(c.e_E, RMul(c.de_E, PetscSqr(g.ux_E))),
        newt_W |-> RAdd(c.e_W, RMul(c.de_W, PetscSqr(g.ux_W))),
        newt_N |-> RAdd(c.e_N, RMul(c.de_N, PetscSqr(g.uy_N))),
        newt_S |-> RAdd(c.e_S, RMul(c.de_S, PetscSqr(g.uy_S))) ]

\* switch (user->jtype): the columns and values of the row; sup is FALSE in
\* the default case
JacobianSwitch(jtype, i, j, hxdhy, hydhx, react, c, n) ==
  CASE jtype = 1 ->
         [col |-> Col5(i, j), sup |-> TRUE,
          v |-> << RNeg(hxdhy),
                   RNeg(hydhx),
                   RSub(RMul(Two, RAdd(hydhx, hxdhy)), react),
                   RNeg(hydhx),
                   RNeg(hxdhy) >>]
    [] jtype = 2 ->
         [col |-> Col5(i, j), sup |-> TRUE,
          v |-> << RMul(RNeg(hxdhy), c.e_S),
                   RMul(RNeg(hydhx), c.e_W),
                   RSub(RAdd(RMul(RAdd(c.e_W, c.e_E), hydhx),
                             RMul(RAdd(c.e_S, c.e_N), hxdhy)), react),
                   RMul(RNeg(hydhx), c.e_E),
                   RMul(RNeg(hxdhy), c.e_N) >>]
    [] jtype = 3 ->
         [col |-> Col5(i, j), sup |-> TRUE,
          v |-> << RAdd(RMul(RNeg(hxdhy), n.newt_S), n.cross_EW),
                   RAdd(RMul(RNeg(hydhx), n.newt_W), n.cross_NS),
                   RSub(RAdd(RMul(hxdhy, RAdd(n.newt_N, n.newt_S)),
                             RMul(hydhx, RAdd(n.newt_E, n.newt_W))), react),
                   RSub(RMul(RNeg(hydhx), n.newt_E), n.cross_NS),
                   RSub(RMul(RNeg(hxdhy), n.newt_N), n.cross_EW) >>]
    [] jtype = 4 ->
         [col |-> Col9(i, j), sup |-> TRUE,
          v |-> << RMul(RNeg(Quarter), RAdd(n.skew_S, n.skew_W)),
                   RAdd(RMul(RNeg(hxdhy), n.newt_S), n.cross_EW),
                   RMul(Quarter, RAdd(n.skew_S, n.skew_E)),
                   RAdd(RMul(RNeg(hydhx), n.newt_W), n.cross_NS),
                   RSub(RAdd(RMul(hxdhy, RAdd(n.newt_N, n.newt_S)),
                             RMul(hydhx, RAdd(n.newt_E, n.newt_W))), react),
                   RSub(RMul(RNeg(hydhx), n.newt_E), n.cross_NS),
                   RMul(Quarter, RAdd(n.skew_N, n.skew_W)),
                   RSub(RMul(RNeg(hxdhy), n.newt_N), n.cross_EW),
                   RMul(RNeg(Quarter), RAdd(n.skew_N, n.skew_E)) >>]
    [] OTHER ->
         [col |-> <<>>, sup |-> FALSE, v |-> <<>>]

InteriorCoefs(ctx, g, i, j, hxdhy, hydhx, react, c) ==
  JacobianSwitch(ctx.jtype, i, j, hxdhy, hydhx, react, c, NewtonCoefs(g, c))

InteriorEdges(ctx, g, i, j, hxdhy, hydhx, react) ==
  InteriorCoefs(ctx, g, i, j, hxdhy, hydhx, react, EdgeCoefs(ctx, g))

InteriorScaled(ctx, xa, i, j, hx, hy) ==
  InteriorEdges(ctx, Edges(xa, i, j, RDiv(One, hx), RDiv(One, hy)), i, j,
                RDiv(hx, hy), RDiv(hy, hx),
                RMul(sc(hx, hy, ctx), PetscExpScalar(xa[j][i])))

\* the entries of interior row (i,j)
InteriorRow(mxv, myv, ctx, xa, i, j) ==
  InteriorScaled(ctx, xa, i, j,
                 RDiv(One, R(mxv - 1)), RDiv(One, R(myv - 1)))

\* the column/value pairs of a row as a set
Pairs(rw) == {<<rw.col[k], rw.v[k]>> : k \in 1..Len(rw.col)}

\* faulty variant: the star operator is never handed to the solver
CreateOperator_box(star) == DMCreateMatrix("box")

\* if (alloc_star) the solver is given an operator created from dmstar;
\* otherwise it creates one from dm, whose stencil is the box
CreateOperator(star) ==
  IF star THEN DMCreateMatrix("star") ELSE DMCreateMatrix("box")

\* the solver calls the registered FormJacobianLocal on the current field
JacobianCall(w) ==
  /\ pc[w] \in {"J_idle", "J_done"}
  /\ later' = (pc[w] = "J_done")
  /\ pc' = [pc EXCEPT ![w] = "J_loop"]
  /\ cur' = [cur EXCEPT ![w] = <<info[w].xs, info[w].ys>>]
  /\ req' = NoRequest
  /\ log' = <<>>
  /\ ierr' = NoError
  /\ UNCHANGED <<mx, my, user, x, info, xl, f, wr, B, alloc_star>>

\* the outcome of inserting row rw: the operator and whether it took the row
SetRow(w, row, rw, res, nx) ==
  /\ B' = res.B
  /\ req' = [row |-> row, pairs |-> Pairs(rw)]
  /\ IF ~res.ok
     THEN \* CHKERRQ(ierr)
          /\ ierr' = [code |-> "PETSC_ERR_ARG_OUTOFRANGE", jtype |-> 0]
          /\ pc' = [pc EXCEPT ![w] = "J_err"]
          /\ UNCHANGED <<log, cur>>
     ELSE /\ log' = Append(log, "set")
          /\ ierr' = ierr
          /\ IF nx = <<>>
             THEN pc' = [pc EXCEPT ![w] = "J_begin"] /\ cur' = cur
             ELSE cur' = [cur EXCEPT ![w] = nx] /\ pc' = pc

RowStep(w, row, rw, nx) ==
  IF ~rw.sup
  THEN \* SETERRQ1(PETSC_COMM_WORLD,PETSC_ERR_SUP,...,user->jtype)
       /\ ierr' = [code |-> "PETSC_ERR_SUP", jtype |-> user.jtype]
       /\ pc' = [pc EXCEPT ![w] = "J_err"]
       /\ UNCHANGED <<B, req, log, cur>>
  ELSE SetRow(w, row, rw, MatSetValuesStencil(B, mx, my, row, rw.col, rw.v), nx)

\* one iteration of the loops of FormJacobianLocal: the entries of row (i,j)
FormJacobianLocal(w) ==
  /\ pc[w] = "J_loop"
  /\ RowStep(w, cur[w],
             IF IsBoundary(mx, my, cur[w][1], cur[w][2]) THEN BoundaryRow(cur[w])
             ELSE InteriorRow(mx, my, user, xl[w], cur[w][1], cur[w][2]),
             LoopNext(info[w], cur[w][1], cur[w][2]))
  /\ UNCHANGED <<mx, my, user, x, info, xl, f, wr, alloc_star, later>>

\* MatAssemblyBegin(B,MAT_FINAL_ASSEMBLY)
JAssemblyBegin(w) ==
  /\ pc[w] = "J_begin"
  /\ pc' = [pc EXCEPT ![w] = "J_end"]
  /\ log' = Append(log, "begin")
  /\ UNCHANGED <<mx, my, user, x, info, xl, cur, f, wr, B, req, ierr, alloc_star, later>>

\* MatAssemblyEnd(B,MAT_FINAL_ASSEMBLY)
JAssemblyEnd(w) ==
  /\ pc[w] = "J_end"
  /\ pc' = [pc EXCEPT ![w] = "J_lock"]
  /\ B' = [B EXCEPT !.assembled = TRUE]
  /\ log' = Append(log, "end")
  /\ UNCHANGED <<mx, my, user, x, info, xl, cur, f, wr, req, ierr, alloc_star, later>>

\* MatSetOption(B,MAT_NEW_NONZERO_LOCATION_ERR,PETSC_TRUE); PetscFunctionReturn(0)
JLock(w) ==
  /\ pc[w] = "J_lock"
  /\ pc' = [pc EXCEPT ![w] = "J_done"]
  /\ B' = [B EXCEPT !.locked = TRUE]
  /\ log' = Append(log, "lock")
  /\ ierr' = [code |-> "ok", jtype |-> 0]
  /\ UNCHANGED <<mx, my, user, x, info, xl, cur, f, wr, req, alloc_star, later>>

JTypes == 0..5

\* the default problem and a nonlinear one, each with a field
JInputs ==
  { [problem |-> [lambda |-> R(6), p |-> Two,  epsilon |-> Eps1e5],   field |-> <<1, 1, 0>>],
    [problem |-> [lambda |-> R(6), p |-> Four, epsilon |-> EpsTenth], field |-> <<1, 2, 1>>] }

\* main has created the operator; one worker owning an arbitrary rectangle
InitJ ==
  /\ mx \in GridSizes /\ my \in GridSizes
  /\ \E s \in JInputs, t \in JTypes :
       /\ user = [lambda |-> s.problem.lambda, p |-> s.problem.p,
                   epsilon |-> s.problem.epsilon, jtype |-> t]
       /\ x = FieldOf(mx, my, s.field)
  /\ info \in [{1} -> Rects(mx, my)]
  /\ xl = [w \in {1} |-> Ghosted(mx, my, info[w], x)]
  /\ pc = [w \in {1} |-> "J_idle"]
  /\ cur = [w \in {1} |-> <<info[w].xs, info[w].ys>>]
  /\ f = <<>> /\ wr = <<>>
  /\ alloc_star \in BOOLEAN
  /\ B = CreateOperator(alloc_star)
  /\ req = NoRequest /\ log = <<>> /\ ierr = NoError /\ later = FALSE

NextJ ==
  \/ \E w \in DOMAIN info : JacobianCall(w)
  \/ \E w \in DOMAIN info : FormJacobianLocal(w)
  \/ \E w \in DOMAIN info : JAssemblyBegin(w)
  \/ \E w \in DOMAIN info : JAssemblyEnd(w)
  \/ \E w \in DOMAIN info : JLock(w)

SpecJ == InitJ /\ [][NextJ]_vars

----------------------------------------------------------------------------
(* Initial guess generator *)

\* faulty variant: i and j are not converted to PetscReal, so 2*i/(Mx-1) is an
\* integer division
InitialGuessPoint_intdiv(mxv, myv, i, j) ==
  IF IsBoundary(mxv, myv, i, j)
  THEN Zero
  ELSE LET xx == RSub(R((2 * i) \div (mxv - 1)), One)
           yy == RSub(R((2 * j) \div (myv - 1)), One)
       IN  RMul(RSub(One, RMul(xx, xx)), RSub(One, RMul(yy, yy)))

\* the value FormInitialGuess stores in x[j][i]
InitialGuessPoint(mxv, myv, i, j) ==
  IF IsBoundary(mxv, myv, i, j)
  THEN Zero
  ELSE LET xx == RSub(RDiv(RMul(Two, R(i)), R(mxv - 1)), One)
           yy == RSub(RDiv(RMul(Two, R(j)), R(myv - 1)), One)
       IN  RMul(RSub(One, RMul(xx, xx)), RSub(One, RMul(yy, yy)))

\* one iteration of the loops of FormInitialGuess, run by worker w
FormInitialGuess(w) ==
  /\ pc[w] = "G_loop"
  /\ LET i  == cur[w][1]
         j  == cur[w][2]
         nx == LoopNext(info[w], i, j)
     IN  /\ x' = [x EXCEPT ![j][i] = InitialGuessPoint(mx, my, i, j)]
         /\ IF nx = <<>>
            THEN pc' = [pc EXCEPT ![w] = "G_done"] /\ cur' = cur
            ELSE cur' = [cur EXCEPT ![w] = nx] /\ pc' = pc
  /\ UNCHANGED <<mx, my, user, info, xl, f, wr, B, req, log, ierr, alloc_star, later>>

\* user.lambda = 6.0; user.p = 2.0; user.epsilon = 1e-5; user.jtype = 4
DefaultCtx == [lambda |-> R(6), p |-> Two, epsilon |-> Eps1e5, jtype |-> 4]

\* one worker owning an arbitrary rectangle fills its part of a fresh vector
InitG ==
  /\ mx \in GridSizes /\ my \in GridSizes
  /\ user = DefaultCtx
  /\ x = UnsetField(mx, my)
  /\ info \in [{1} -> Rects(mx, my)]
  /\ xl = <<>>
  /\ pc = [w \in {1} |-> "G_loop"]
  /\ cur = [w \in {1} |-> <<info[w].xs, info[w].ys>>]
  /\ f = <<>> /\ wr = <<>>
  /\ B = NoOperator /\ req = NoRequest /\ log = <<>> /\ ierr = NoError
  /\ alloc_star = FALSE /\ later = FALSE

NextG == \E w \in DOMAIN info : FormInitialGuess(w)

SpecG == InitG /\ [][NextG]_vars

----------------------------------------------------------------------------
(* Residual evaluation by one worker per partition *)

\* the contiguous ranges <<start, width>> one direction of m points is cut into:
\* one range, or two ranges meeting at c
Cuts(m) ==
  {<< <<0, m>> >>} \cup {<< <<0, c>>, <<c, m - c>> >> : c \in 1..(m - 1)}

\* the owned rectangles of a process grid, ranks numbered along x first
Partition(cx, cy) ==
  [w \in 1..(Len(cx) * Len(cy)) |->
     LET a == ((w - 1) % Len(cx)) + 1
         b == ((w - 1) \div Len(cx)) + 1
     IN  [xs |-> cx[a][1], ys |-> cy[b][1], xm |-> cx[a][2], ym |-> cy[b][2]]]

\* each problem with a field
PInputs ==
  { [problem |-> [lambda |-> R(6), p |-> Two,  epsilon |-> Eps1e5],   field |-> <<1, 1, 0>>],
    [problem |-> [lambda |-> R(1), p |-> Two,  epsilon |-> EpsTenth], field |-> <<0, 0, 1>>],
    [problem |-> [lambda |-> R(6), p |-> Four, epsilon |-> EpsTenth], field |-> <<1, 2, 1>>] }

\* every worker has received its ghosted copy of the same field and runs
\* FormFunctionLocal on it
InitP ==
  /\ mx \in GridSizes /\ my \in GridSizes
  /\ \E s \in PInputs :
       /\ user = [lambda |-> s.problem.lambda, p |-> s.problem.p,
                   epsilon |-> s.problem.epsilon, jtype |-> 4]
       /\ x = FieldOf(mx, my, s.field)
  /\ \E cx \in Cuts(mx), cy \in Cuts(my) : info = Partition(cx, cy)
  /\ xl = [w \in DOMAIN info |-> Ghosted(mx, my, info[w], x)]
  /\ pc = [w \in DOMAIN info |-> "F_loop"]
  /\ cur = [w \in DOMAIN info |-> <<info[w].xs, info[w].ys>>]
  /\ f = UnsetField(mx, my)
  /\ wr = [pt \in Grid(mx, my) |-> <<>>]
  /\ B = NoOperator /\ req = NoRequest /\ log = <<>> /\ ierr = NoError
  /\ alloc_star = FALSE /\ later = FALSE

SpecP == InitP /\ [][NextF]_vars

----------------------------------------------------------------------------
(* Jacobian assembly in each of the four modes, on every field *)

\* jtype 1=plain, 2=first term, 3=star, 4=full
Modes == 1..4

\* one worker owning the whole grid assembles in one of the four modes, for
\* every field and every parameter setting
InitE ==
  /\ mx \in GridSizes /\ my \in GridSizes
  /\ user \in AppCtx(Modes)
  /\ x \in Fields(mx, my)
  /\ info = [w \in {1} |-> [xs |-> 0, ys |-> 0, xm |-> mx, ym |-> my]]
  /\ xl = [w \in {1} |-> Ghosted(mx, my, info[w], x)]
  /\ pc = [w \in {1} |-> "J_idle"]
  /\ cur = [w \in {1} |-> <<info[w].xs, info[w].ys>>]
  /\ f = <<>> /\ wr = <<>>
  /\ alloc_star \in BOOLEAN
  /\ B = CreateOperator(alloc_star)
  /\ req = NoRequest /\ log = <<>> /\ ierr = NoError /\ later = FALSE

SpecE == InitE /\ [][NextJ]_vars

----------------------------------------------------------------------------
(* Properties of the residual evaluator (SpecF) *)

Done(w, label) == pc[w] = label

Written(pt) == wr[pt] # <<>>

\* C1: once FormFunctionLocal has returned, the residual at every owned
\* boundary point equals the solution field at that point, for every grid,
\* ownership rectangle, field and parameter setting.
C1_BoundaryResidual ==
  /\ \A pt \in Owned(info[1]) :
       (Written(pt) /\ IsBoundary(mx, my, pt[1], pt[2]))
          => f[pt[2]][pt[1]] = x[pt[2]][pt[1]]
  /\ Done(1, "F_done") =>
       \A pt \in Owned(info[1]) :
          IsBoundary(mx, my, pt[1], pt[2])
             => (Written(pt) /\ f[pt[2]][pt[1]] = x[pt[2]][pt[1]])

\* a finished call of the nonlinear problem that owned interior points and a
\* boundary point with a non-zero field value
C1_Witness ==
  /\ Done(1, "F_done")
  /\ user.p = Four
  /\ \E pt \in Owned(info[1]) : ~IsBoundary(mx, my, pt[1], pt[2])
  /\ \E pt \in Owned(info[1]) :
       IsBoundary(mx, my, pt[1], pt[2]) /\ f[pt[2]][pt[1]] = R(2)

\* the scenario of C8: 4x4 grid, default parameters, jtype 1, zero field
C8_Scenario ==
  /\ mx = 4 /\ my = 4
  /\ user = [lambda |-> R(6), p |-> Two, epsilon |-> Eps1e5, jtype |-> 1]
  /\ x = ZeroField(4, 4)
  /\ Done(1, "F_done")

\* minus sc, with sc = hx*hy*lambda
MinusSc == RNeg(RMul(RMul(RDiv(One, R(mx - 1)), RDiv(One, R(my - 1))), user.lambda))

\* C8 as stated: in the scenario the residual is 0 on the boundary and -sc at
\* the single interior point of the grid.
C8_SingleInteriorPoint ==
  C8_Scenario =>
    /\ \A pt \in Owned(info[1]) :
         f[pt[2]][pt[1]] = IF IsBoundary(mx, my, pt[1], pt[2]) THEN Zero ELSE MinusSc
    /\ Cardinality(Interior(mx, my)) = 1

\* C8 as amended: in the scenario the residual is 0 at every owned boundary
\* point and -sc = -2/3 at every owned interior point; the 4x4 grid has four
\* interior points, not one.
C8_ZeroFieldResidual ==
  C8_Scenario =>
    /\ \A pt \in Owned(info[1]) :
         f[pt[2]][pt[1]] = IF IsBoundary(mx, my, pt[1], pt[2]) THEN Zero ELSE MinusSc
    /\ MinusSc = <<-2, 3>>
    /\ Cardinality(Interior(mx, my)) = 4

\* the scenario evaluated by a worker owning the whole grid
C8_Witness ==
  /\ C8_Scenario
  /\ Owned(info[1]) = Grid(mx, my)
  /\ \A pt \in Interior(mx, my) : f[pt[2]][pt[1]] = <<-2, 3>>

\* the 5-point Laplacian plus reaction term at (i,j)
FivePoint(xa, i, j) ==
  LET hx == RDiv(One, R(mx - 1))
      hy == RDiv(One, R(my - 1))
      u  == xa[j][i]
  IN  RSub(RAdd(RMul(RSub(RSub(RMul(Two, u), xa[j][i-1]), xa[j][i+1]), RDiv(hy, hx)),
                RMul(RSub(RSub(RMul(Two, u), xa[j-1][i]), xa[j+1][i]), RDiv(hx, hy))),
           RMul(RMul(RMul(hx, hy), user.lambda), PetscExpScalar(u)))

\* the four gradient pairs at the point the evaluator is about to process
EdgePairs ==
  LET g == Edges(xl[1], cur[1][1], cur[1][2], R(mx - 1), R(my - 1))
  IN  {<<g.ux_E, g.uy_E>>, <<g.ux_W, g.uy_W>>, <<g.ux_N, g.uy_N>>, <<g.ux_S, g.uy_S>>}

\* C9: when p = 2, eta is 1 and deta is 0 at every gradient pair the evaluator
\* forms, and the residual written at an interior point is the 5-point
\* Laplacian stencil plus the reaction term, which reads no diagonal neighbour.
C9_LinearReduction ==
  user.p = Two =>
    /\ (Done(1, "F_loop") /\ ~IsBoundary(mx, my, cur[1][1], cur[1][2])) =>
          \A gp \in EdgePairs : eta(user, gp[1], gp[2]) = One /\ deta(user, gp[1], gp[2]) = Zero
    /\ \A pt \in Owned(info[1]) :
          (Written(pt) /\ ~IsBoundary(mx, my, pt[1], pt[2]))
             => f[pt[2]][pt[1]] = FivePoint(x, pt[1], pt[2])

\* p = 2 and an interior point has been evaluated whose diagonal neighbours
\* differ from one another and whose edges carry non-zero gradients
C9_Witness ==
  /\ user.p = Two
  /\ \E pt \in Owned(info[1]) :
       /\ Written(pt)
       /\ ~IsBoundary(mx, my, pt[1], pt[2])
       /\ x[pt[2] - 1][pt[1] - 1] # x[pt[2] + 1][pt[1] + 1]
       /\ x[pt[2] - 1][pt[1] + 1] # x[pt[2] + 1][pt[1] - 1]
       /\ x[pt[2]][pt[1] + 1] # x[pt[2]][pt[1]]

----------------------------------------------------------------------------
(* Properties of the Jacobian assembler (SpecJ) *)

OwnedInterior(w) == {pt \in Owned(info[w]) : ~IsBoundary(mx, my, pt[1], pt[2])}

OwnedBoundary(w) == {pt \in Owned(info[w]) : IsBoundary(mx, my, pt[1], pt[2])}

\* the call has left the loops without an error
PastLoops(w) == pc[w] \in {"J_begin", "J_end", "J_lock", "J_done"}

\* C2: every call of FormJacobianLocal with a jtype outside 1..4 fails with the
\* unsupported-configuration error that carries the jtype, whatever the grid
\* and the ownership rectangle.
C2_InvalidJtypeFails ==
  user.jtype \notin 1..4 =>
    /\ ~PastLoops(1)
    /\ Done(1, "J_err") => ierr = [code |-> "PETSC_ERR_SUP", jtype |-> user.jtype]

\* C3 as stated: a call with jtype 4 on a star-preallocated operator never
\* completes, and a call with jtype 1, 2 or 3 never fails.
C3_StarRejectsJtype4 ==
  /\ (user.jtype = 4 /\ alloc_star) => ~PastLoops(1)
  /\ user.jtype \in 1..3 => ~Done(1, "J_err")

\* C3 as amended: with jtype 4 and the star preallocation the call fails with
\* the matrix layer's new-nonzero error at the first owned interior row, on
\* the first call as on later ones, so it completes only for a rectangle of
\* boundary points; with jtype 1, 2 or 3 (either preallocation), and with
\* jtype 4 and the box preallocation, the call never fails.
C3_StarRejectsInteriorRows ==
  /\ (user.jtype = 4 /\ alloc_star) =>
        /\ PastLoops(1) => OwnedInterior(1) = {}
        /\ Done(1, "J_err") =>
              /\ ierr.code = "PETSC_ERR_ARG_OUTOFRANGE"
              /\ cur[1] \in OwnedInterior(1)
        /\ req.row \in OwnedInterior(1) => Done(1, "J_err")
  /\ (user.jtype \in 1..3 \/ (user.jtype = 4 /\ ~alloc_star)) => ~Done(1, "J_err")
  /\ (user.jtype \in 1..4 /\ Done(1, "J_done")) => ierr.code = "ok"

\* jtype 4 has just failed on the star-preallocated operator at an interior row
C3_Witness ==
  /\ user.jtype = 4 /\ alloc_star /\ B.pattern = "star"
  /\ Done(1, "J_err")
  /\ ierr.code = "PETSC_ERR_ARG_OUTOFRANGE"
  /\ cur[1] \in OwnedInterior(1)
  /\ Len(log) > 0

\* C4: for jtype in 1..4 every owned boundary row the call sets receives
\* exactly one entry, the diagonal with value 1.0, and no off-diagonal entry;
\* a call that gets past the loops has set every owned boundary row so.
C4_BoundaryRows ==
  user.jtype \in 1..4 =>
    /\ req.row \in OwnedBoundary(1) => req.pairs = {<<req.row, One>>}
    /\ \A row \in DOMAIN B.val \cap OwnedBoundary(1) : B.val[row] = (row :> One)
    /\ PastLoops(1) => OwnedBoundary(1) \subseteq DOMAIN B.val

\* a completed call that set boundary rows and interior rows
C4_Witness ==
  /\ user.jtype \in 1..4
  /\ Done(1, "J_done")
  /\ OwnedBoundary(1) # {} /\ OwnedInterior(1) # {}
  /\ req.row \in OwnedBoundary(1) /\ req.pairs = {<<req.row, One>>}

Star5(i, j) == {<<i, j-1>>, <<i-1, j>>, <<i, j>>, <<i+1, j>>, <<i, j+1>>}

Box9(i, j) == {<<a, b>> : a \in {i-1, i, i+1}, b \in {j-1, j, j+1}}

Columns == {e[1] : e \in req.pairs}

\* the MatSetValuesStencil call of this row returned without error
RowInserted(row) == ~(Done(1, "J_err") /\ cur[1] = row)

\* C5: every owned interior row the call sets is handed exactly the 5 star
\* positions when jtype is 1, 2 or 3 and exactly the 9 box positions when
\* jtype is 4, one value per position, all inside the grid, whatever the
\* solution field; when the insertion succeeds these are the row's entries.
C5_InteriorPositions ==
  /\ req.row \in OwnedInterior(1) =>
       LET row  == req.row
           want == IF user.jtype = 4 THEN Box9(row[1], row[2]) ELSE Star5(row[1], row[2])
       IN  /\ user.jtype \in 1..4
           /\ Columns = want
           /\ Cardinality(req.pairs) = Cardinality(want)
           /\ Cardinality(want) = IF user.jtype = 4 THEN 9 ELSE 5
           /\ Columns \subseteq Grid(mx, my)
           /\ RowInserted(row) => Inserted(B, row) = want
  /\ \A row \in DOMAIN B.val \cap OwnedInterior(1) :
       RowInserted(row) =>
          Inserted(B, row) = IF user.jtype = 4 THEN Box9(row[1], row[2])
                                               ELSE Star5(row[1], row[2])

\* a completed jtype-4 assembly of the nonlinear problem with an interior row
C5_Witness ==
  /\ user.jtype = 4 /\ user.p = Four
  /\ Done(1, "J_done")
  /\ req.row \in OwnedInterior(1) /\ Cardinality(req.pairs) = 9

\* the events of a complete call that owns n rows
FullLog(n) == [k \in 1..(n + 3) |->
                 IF k <= n THEN "set"
                 ELSE IF k = n + 1 THEN "begin"
                 ELSE IF k = n + 2 THEN "end" ELSE "lock"]

\* C6: the events of a call are a prefix of: one set per owned row, assembly
\* begin, assembly end, lock; a call that returns 0 has made all of them; a
\* call that fails has made none of begin, end and lock, and the operator is
\* not in assembled state once a call has set only part of its rows.
C6_AssemblyOrder ==
  LET n == Cardinality(Owned(info[1]))
  IN  /\ Len(log) <= n + 3
      /\ log = SubSeq(FullLog(n), 1, Len(log))
      /\ Done(1, "J_done") => log = FullLog(n)
      /\ Done(1, "J_err") => \A k \in 1..Len(log) : log[k] = "set"
      /\ (Done(1, "J_err") /\ ierr.code = "PETSC_ERR_SUP") =>
            /\ Len(log) < n
            /\ ~B.assembled \/ log = <<>>
      /\ (B.assembled /\ log # <<>>) =>
            (Len(log) >= n + 2 /\ DOMAIN B.val = Owned(info[1]))

\* a call failed with the unsupported-jtype error after setting some rows
C6_Witness ==
  /\ Done(1, "J_err")
  /\ ierr.code = "PETSC_ERR_SUP"
  /\ Len(log) > 0
  /\ ~B.assembled

----------------------------------------------------------------------------
(* Properties of the initial guess generator (SpecG) *)

\* (1 - xx^2)(1 - yy^2) with xx = 2i/(Mx-1) - 1, yy = 2j/(My-1) - 1, over the
\* common denominator (Mx-1)^2 (My-1)^2
BumpValue(i, j) ==
  LET a == mx - 1
      b == my - 1
  IN  RNorm((a * a - (2 * i - a) * (2 * i - a)) * (b * b - (2 * j - b) * (2 * j - b)),
            a * a * b * b)

\* C7: what FormInitialGuess has written is exactly 0 at every boundary point
\* and, at every interior point, the strictly positive value (1-xx^2)(1-yy^2);
\* when it returns, every owned point is written.
C7_InitialGuess ==
  /\ \A pt \in Owned(info[1]) :
       x[pt[2]][pt[1]] # Unset =>
          IF IsBoundary(mx, my, pt[1], pt[2])
          THEN x[pt[2]][pt[1]] = Zero
          ELSE /\ RPos(x[pt[2]][pt[1]])
               /\ x[pt[2]][pt[1]] = BumpValue(pt[1], pt[2])
  /\ Done(1, "G_done") => \A pt \in Owned(info[1]) : x[pt[2]][pt[1]] # Unset

\* the whole of a non-square grid has been filled, off-centre interior values
\* included
C7_Witness ==
  /\ Done(1, "G_done")
  /\ mx = 4 /\ my = 3
  /\ Owned(info[1]) = Grid(mx, my)
  /\ x[1][1] = <<8, 9>> /\ x[1][2] = <<8, 9>>
  /\ x[0][1] = Zero /\ x[2][3] = Zero

----------------------------------------------------------------------------
(* Properties of the partitioned residual evaluation (SpecP) *)

Workers == DOMAIN info

AllDone == \A w \in Workers : Done(w, "F_done")

WholeGrid == [xs |-> 0, ys |-> 0, xm |-> mx, ym |-> my]

\* the residual field a single worker owning the whole grid produces
SingleWorkerResidual ==
  LET xa == Ghosted(mx, my, WholeGrid, x)
  IN  [j \in 0..(my - 1) |-> [i \in 0..(mx - 1) |-> FormFunctionPoint(mx, my, user, xa, i, j)]]

C10_State ==
  /\ \A pt \in Grid(mx, my) :
       /\ Cardinality({w \in Workers : pt \in Owned(info[w])}) = 1
       /\ \A k \in 1..Len(wr[pt]) : pt \in Owned(info[wr[pt][k]])
       /\ Len(wr[pt]) <= 1
       /\ wr[pt] = <<>> => f[pt[2]][pt[1]] = Unset
  /\ AllDone =>
       /\ \A pt \in Grid(mx, my) : Len(wr[pt]) = 1
       /\ f = SingleWorkerResidual

\* C10: with one worker per rectangle of a partition running FormFunctionLocal
\* on the same field in any interleaving, a worker writes the residual only at
\* points it owns, no step writes the solution field or a ghosted copy of it,
\* every grid point is written exactly once, and the final residual field is
\* the one a single worker owning the whole grid produces.
C10_PartitionedResidual == [] C10_State /\ [][x' = x /\ xl' = xl]_vars

\* four workers have finished the nonlinear problem on a grid whose interior
\* stencils reach across both cuts
C10_Witness ==
  /\ AllDone
  /\ Cardinality(Workers) = 4
  /\ user.p = Four
  /\ \E pt \in Interior(mx, my) :
       /\ pt \in Owned(info[1])
       /\ <<pt[1] + 1, pt[2]>> \in Owned(info[2])
       /\ <<pt[1], pt[2] + 1>> \in Owned(info[3])
       /\ <<pt[1] + 1, pt[2] + 1>> \in Owned(info[4])
       /\ f[pt[2]][pt[1]] # Unset

----------------------------------------------------------------------------
(* Properties of the Jacobian modes (SpecE) *)

\* the entries mode t assembles for interior row `row` on the current field
RowOfMode(t, row) ==
  InteriorRow(mx, my, [user EXCEPT !.jtype = t], xl[1], row[1], row[2])

\* the four diagonal neighbours of a row
Corners(row) ==
  { <<row[1] - 1, row[2] - 1>>, <<row[1] + 1, row[2] - 1>>,
    <<row[1] - 1, row[2] + 1>>, <<row[1] + 1, row[2] + 1>> }

\* sum of the values of a set of <<column, value>> pairs
RECURSIVE RSumPairs(_)
RSumPairs(S) ==
  IF S = {} THEN Zero
  ELSE LET q == CHOOSE q \in S : TRUE IN RAdd(q[2], RSumPairs(S \ {q}))

\* -hx*hy*lambda*exp(u) at a point, with hx = 1/(mx-1), hy = 1/(my-1)
MinusReaction(row) ==
  RNeg(RMul(RMul(RMul(RDiv(One, R(mx - 1)), RDiv(One, R(my - 1))), user.lambda),
            PetscExpScalar(x[row[2]][row[1]])))

\* the entries stored in a row of the operator, as <<column, value>> pairs
Stored(row) ==
  IF row \in DOMAIN B.val THEN {<<c, B.val[row][c]>> : c \in DOMAIN B.val[row]} ELSE {}

\* C11: when p = 2, the entries FormJacobianLocal assembles for an interior row
\* in mode 2 and in mode 3 are, position by position, those of mode 1 on the
\* same field, and mode 4 assembles those five entries plus the value 0 at the
\* four diagonal neighbours; in every mode (and for every p) the entries of an
\* interior row sum to -hx*hy*lambda*exp(u).
C11_ModesAgreeAtP2 ==
  (req.row # <<>> /\ ~IsBoundary(mx, my, req.row[1], req.row[2])) =>
    /\ (user.p = Two /\ user.jtype \in {1, 2, 3}) =>
         req.pairs = Pairs(RowOfMode(1, req.row))
    /\ (user.p = Two /\ user.jtype = 4) =>
         req.pairs = Pairs(RowOfMode(1, req.row))
                       \cup {<<c, Zero>> : c \in Corners(req.row)}
    /\ RSumPairs(req.pairs) = MinusReaction(req.row)
    /\ pc[1] # "J_err" => Stored(req.row) = req.pairs

\* a mode-4 call with p = 2 has just stored the nine entries of an interior
\* row around which the field has a non-zero gradient in both directions
C11_Witness ==
  /\ user.p = Two /\ user.jtype = 4
  /\ pc[1] = "J_loop"
  /\ Cardinality(req.pairs) = 9
  /\ req.row # <<>> /\ ~IsBoundary(mx, my, req.row[1], req.row[2])
  /\ x[req.row[2]][req.row[1] + 1] # x[req.row[2]][req.row[1]]
  /\ x[req.row[2] + 1][req.row[1]] # x[req.row[2]][req.row[1]]
  /\ Stored(req.row) = req.pairs

====
